---- MODULE Spec2Model ----
(***************************************************************************)
(* A model of gilbertbrandow/http-server: the per-resource mutex registry  *)
(* (source/mutex.c), the shared-file helpers built on it                   *)
(* (source/route_actions_helper.c) and the route dispatcher                *)
(* (source/router.c, source/main.c).                                       *)
(***************************************************************************)
EXTENDS Integers, Sequences, FiniteSets, TLC

\* Number of connection threads that can be alive at the same time.
NumThreads == 2

VARIABLES
    resource_mutex_list,        \* mutex.c:25, the linked list, head first
    resource_mutex_list_mutex,  \* mutex.c:35, the set of threads holding it
    pc,                         \* position of every connection thread
    call,                       \* the file function a thread is running
    lock_ret,                   \* value resource_mutex_lock returned
    unlock_ret,                 \* value resource_mutex_unlock returned
    handler_ret,                \* value the file function returned
    process_exited,             \* exit() was called (router.c:377)
    parsed_request,             \* the request as http_request_constructor built it
    http_request,               \* the struct http_request handed to route()
    route_pc,                   \* position inside route()
    invoked,                    \* indices of the route actions called
    socket,                     \* the writes that reached the client
    status_message,             \* the string route() returns
    inbound,                    \* the bytes the client sent on the connection
    request_data,               \* the buffer of handle_request (router.c:118)
    handle_pc,                  \* position inside handle_connection
    comments_txt,               \* the records of data/comments.txt
    shutdown_flag,              \* main.c:26
    global_server,              \* main.c:27
    server_socket,              \* the listening socket, server->socket
    launch_pc,                  \* position of the main thread in main/launch
    client_socket,              \* main.c:118, what accept returned
    handle_shutdown_pc,         \* position inside the signal handler
    connection                  \* the threads pthread_create started

registry_vars == <<resource_mutex_list, resource_mutex_list_mutex, pc, call,
                   lock_ret, unlock_ret, handler_ret, process_exited>>
route_vars == <<parsed_request, http_request, route_pc, invoked, socket, status_message>>
conn_vars == <<inbound, request_data, handle_pc, comments_txt>>
server_vars == <<shutdown_flag, global_server, server_socket, launch_pc,
                 client_socket, handle_shutdown_pc, connection>>
vars == <<resource_mutex_list, resource_mutex_list_mutex, pc, call,
          lock_ret, unlock_ret, handler_ret, process_exited,
          parsed_request, http_request, route_pc, invoked, socket,
          status_message, inbound, request_data, handle_pc,
          comments_txt, shutdown_flag, global_server, server_socket,
          launch_pc, client_socket, handle_shutdown_pc, connection>>

Threads == 1..NumThreads

(***************************************************************************)
(* The file functions of route_actions_helper.c that threads run, each     *)
(* with a file name its caller passes: send_image (server.c:163) reads the *)
(* request path without its first character, save_comment the comment     *)
(* file.  read_html_file (215-248) is read_binary_file behind a test of    *)
(* the ".html" suffix that every caller in server.c passes.                *)
(***************************************************************************)
FileCalls ==
    { [fn |-> "read_binary_file", filename |-> "public/images/a.png"],
      [fn |-> "save_comment",     filename |-> "data/comments.txt"] }

NoCall == [fn |-> "none", filename |-> ""]

\* struct resource_mutex (mutex.h): the path, and the state of its mutex.
\* owner is the set of live threads that locked it and did not unlock it.
resource_mutex(path, t) ==
    [resource_path |-> path, locked |-> TRUE, owner |-> {t}]

(***************************************************************************)
(* The list walk of resource_mutex_lock, mutex.c:50-62.  The loop runs     *)
(* while (current && current->next): the last node is never compared.      *)
(* Returns the index of the node the loop stops on with a match, or 0.     *)
(***************************************************************************)
RECURSIVE lock_walk(_, _, _)
lock_walk(list, path, i) ==
    IF i >= Len(list) THEN 0
    ELSE IF list[i].resource_path = path THEN i
    ELSE lock_walk(list, path, i + 1)

\* The list walk of resource_mutex_unlock, mutex.c:100-112: while (current).
RECURSIVE unlock_walk(_, _, _)
unlock_walk(list, path, i) ==
    IF i > Len(list) THEN 0
    ELSE IF list[i].resource_path = path THEN i
    ELSE unlock_walk(list, path, i + 1)

RegistryInit ==
    /\ resource_mutex_list = << >>
    /\ resource_mutex_list_mutex = {}
    /\ pc = [t \in Threads |-> "idle"]
    /\ call = [t \in Threads |-> NoCall]
    /\ lock_ret = [t \in Threads |-> 0]
    /\ unlock_ret = [t \in Threads |-> 0]
    /\ handler_ret = [t \in Threads |-> "none"]
    /\ process_exited = FALSE

\* What status_message holds before route() returns.
NoStatus == [text |-> "none", path |-> << >>, method |-> ""]

RouteIdle ==
    /\ parsed_request = [method |-> "GET", path |-> << >>]
    /\ http_request = parsed_request
    /\ route_pc = "idle"
    /\ invoked = << >>
    /\ socket = << >>
    /\ status_message = NoStatus

\* No connection is being handled.
ConnIdle ==
    /\ inbound = << >>
    /\ request_data = << >>
    /\ comments_txt = << >>
    /\ handle_pc = "idle"

\* Bound of the model: the connections the accept loop takes.
MaxConnections == 2

Connections == 1..MaxConnections

\* A slot of the thread table before pthread_create has filled it.
NoThread == [pc |-> "none", client_socket |-> -1]

\* main() has not called launch.
ServerIdle ==
    /\ shutdown_flag = 0
    /\ global_server = "NULL"
    /\ server_socket = "listening"
    /\ launch_pc = "main"
    /\ client_socket = -1
    /\ handle_shutdown_pc = "none"
    /\ connection = [c \in Connections |-> NoThread]

Init == RegistryInit /\ RouteIdle /\ ConnIdle /\ ServerIdle

(***************************************************************************)
(* A connection thread reaches one of the file functions, whose first      *)
(* statement is the call of open_shared_file                               *)
(* (route_actions_helper.c:264, 292).                                      *)
(***************************************************************************)
file_function_entry(t, c) ==
    /\ ~process_exited
    /\ pc[t] = "idle"
    /\ call' = [call EXCEPT ![t] = c]
    /\ pc' = [pc EXCEPT ![t] = "resource_mutex_lock"]
    /\ UNCHANGED <<resource_mutex_list, resource_mutex_list_mutex,
                   lock_ret, unlock_ret, handler_ret, process_exited>>
    /\ UNCHANGED <<route_vars, conn_vars, server_vars>>

(***************************************************************************)
(* resource_mutex_lock, mutex.c:46-85.                                     *)
(***************************************************************************)
\* mutex.c:48-62: take the list mutex and walk the list.
resource_mutex_lock_enter(t) ==
    /\ ~process_exited
    /\ pc[t] = "resource_mutex_lock"
    /\ resource_mutex_list_mutex = {}
    /\ resource_mutex_list_mutex' = {t}
    /\ pc' = [pc EXCEPT ![t] =
                IF lock_walk(resource_mutex_list, call[t].filename, 1) # 0
                  THEN "lock_found" ELSE "lock_new"]
    /\ UNCHANGED <<resource_mutex_list, call, lock_ret, unlock_ret,
                   handler_ret, process_exited>>
    /\ UNCHANGED <<route_vars, conn_vars, server_vars>>

\* mutex.c:56-58: pthread_mutex_lock on the node found, with the list mutex
\* still held; then the list mutex is released and 0 returned.
resource_mutex_lock_found(t) ==
    LET i == lock_walk(resource_mutex_list, call[t].filename, 1) IN
    /\ ~process_exited
    /\ pc[t] = "lock_found"
    /\ ~resource_mutex_list[i].locked
    /\ resource_mutex_list' = [resource_mutex_list EXCEPT
                                 ![i].locked = TRUE, ![i].owner = {t}]
    /\ resource_mutex_list_mutex' = {}
    /\ lock_ret' = [lock_ret EXCEPT ![t] = 0]
    /\ pc' = [pc EXCEPT ![t] = "fopen"]
    /\ UNCHANGED <<call, unlock_ret, handler_ret, process_exited>>
    /\ UNCHANGED <<route_vars, conn_vars, server_vars>>

\* mutex.c:64-70: malloc returns NULL.
resource_mutex_lock_nomem(t) ==
    /\ ~process_exited
    /\ pc[t] = "lock_new"
    /\ resource_mutex_list_mutex' = {}
    /\ lock_ret' = [lock_ret EXCEPT ![t] = -1]
    /\ pc' = [pc EXCEPT ![t] = "fopen"]
    /\ UNCHANGED <<resource_mutex_list, call, unlock_ret, handler_ret,
                   process_exited>>
    /\ UNCHANGED <<route_vars, conn_vars, server_vars>>

\* mutex.c:72-84: the new node is appended, locked, and 0 returned.
resource_mutex_lock_new(t) ==
    /\ ~process_exited
    /\ pc[t] = "lock_new"
    /\ resource_mutex_list' =
           Append(resource_mutex_list, resource_mutex(call[t].filename, t))
    /\ resource_mutex_list_mutex' = {}
    /\ lock_ret' = [lock_ret EXCEPT ![t] = 0]
    /\ pc' = [pc EXCEPT ![t] = "fopen"]
    /\ UNCHANGED <<call, unlock_ret, handler_ret, process_exited>>
    /\ UNCHANGED <<route_vars, conn_vars, server_vars>>

(***************************************************************************)
(* open_shared_file, mutex.c:163-167: the value of resource_mutex_lock is  *)
(* dropped and fopen is called.  The callers return NULL / RESPONSE_ERROR  *)
(* at once when fopen fails (route_actions_helper.c:224, 266, 294).        *)
(***************************************************************************)
open_shared_file(t, opened) ==
    /\ ~process_exited
    /\ pc[t] = "fopen"
    /\ IF opened
         THEN /\ pc' = [pc EXCEPT ![t] = "file_open"]
              /\ UNCHANGED handler_ret
         ELSE /\ pc' = [pc EXCEPT ![t] = "returned"]
              /\ handler_ret' = [handler_ret EXCEPT ![t] =
                    IF call[t].fn = "save_comment"
                      THEN "RESPONSE_ERROR" ELSE "NULL"]
    /\ UNCHANGED <<resource_mutex_list, resource_mutex_list_mutex, call,
                   lock_ret, unlock_ret, process_exited>>
    /\ UNCHANGED <<route_vars, conn_vars, server_vars>>

(***************************************************************************)
(* The body of the file function between fopen and close_shared_file:      *)
(* read_html_file 229-245, read_binary_file 271-285, save_comment 299-304. *)
(* The readers malloc the content and give up when that fails; fclose is   *)
(* the first statement of close_shared_file (mutex.c:180).                 *)
(***************************************************************************)
file_function_body(t, allocated) ==
    /\ ~process_exited
    /\ pc[t] = "file_open"
    /\ handler_ret' = [handler_ret EXCEPT ![t] =
          IF call[t].fn = "save_comment" THEN "RESPONSE_SUCCESS"
          ELSE IF allocated THEN "content" ELSE "NULL"]
    /\ pc' = [pc EXCEPT ![t] = "resource_mutex_unlock"]
    /\ UNCHANGED <<resource_mutex_list, resource_mutex_list_mutex, call,
                   lock_ret, unlock_ret, process_exited>>
    /\ UNCHANGED <<route_vars, conn_vars, server_vars>>

(***************************************************************************)
(* resource_mutex_unlock, mutex.c:96-117, called by close_shared_file.     *)
(***************************************************************************)
\* mutex.c:98
resource_mutex_unlock_enter(t) ==
    /\ ~process_exited
    /\ pc[t] = "resource_mutex_unlock"
    /\ resource_mutex_list_mutex = {}
    /\ resource_mutex_list_mutex' = {t}
    /\ pc' = [pc EXCEPT ![t] = "unlock_walk"]
    /\ UNCHANGED <<resource_mutex_list, call, lock_ret, unlock_ret,
                   handler_ret, process_exited>>
    /\ UNCHANGED <<route_vars, conn_vars, server_vars>>

\* resource_mutex_unlock returning -1 without the unlock of mutex.c:114.
resource_mutex_unlock_walk_keeps_list_mutex(t, released) ==
    LET i == unlock_walk(resource_mutex_list, call[t].filename, 1) IN
    /\ ~process_exited
    /\ pc[t] = "unlock_walk"
    /\ released
    /\ IF i # 0
         THEN /\ resource_mutex_list' =
                    [resource_mutex_list EXCEPT
                        ![i].locked = FALSE, ![i].owner = {}]
              /\ unlock_ret' = [unlock_ret EXCEPT ![t] = 0]
              /\ resource_mutex_list_mutex' = {}
         ELSE /\ UNCHANGED resource_mutex_list
              /\ unlock_ret' = [unlock_ret EXCEPT ![t] = -1]
              /\ UNCHANGED resource_mutex_list_mutex
    /\ pc' = [pc EXCEPT ![t] = "returned"]
    /\ UNCHANGED <<call, lock_ret, handler_ret, process_exited>>
    /\ UNCHANGED <<route_vars, conn_vars, server_vars>>

\* mutex.c:100-116.  pthread_mutex_unlock on a mutex the caller does not
\* hold is undefined: the mutex is either released or left as it was.
resource_mutex_unlock_walk(t, released) ==
    LET i == unlock_walk(resource_mutex_list, call[t].filename, 1) IN
    /\ ~process_exited
    /\ pc[t] = "unlock_walk"
    /\ IF i # 0
         THEN /\ \/ released
                 \/ t \notin resource_mutex_list[i].owner
              /\ released => resource_mutex_list[i].locked
              /\ resource_mutex_list' =
                    IF released
                      THEN [resource_mutex_list EXCEPT
                              ![i].locked = FALSE, ![i].owner = {}]
                      ELSE resource_mutex_list
              /\ unlock_ret' = [unlock_ret EXCEPT ![t] = 0]
         ELSE /\ released
              /\ UNCHANGED resource_mutex_list
              /\ unlock_ret' = [unlock_ret EXCEPT ![t] = -1]
    /\ resource_mutex_list_mutex' = {}
    /\ pc' = [pc EXCEPT ![t] = "returned"]
    /\ UNCHANGED <<call, lock_ret, handler_ret, process_exited>>
    /\ UNCHANGED <<route_vars, conn_vars, server_vars>>

(***************************************************************************)
(* The connection thread ends (main.c:148, pthread_exit).  A node mutex it *)
(* still holds stays locked and has no live owner any more.                *)
(***************************************************************************)
thread_exit(t) ==
    /\ ~process_exited
    /\ pc[t] = "returned"
    /\ resource_mutex_list' =
          [i \in DOMAIN resource_mutex_list |->
              [resource_mutex_list[i] EXCEPT !.owner = @ \ {t}]]
    /\ pc' = [pc EXCEPT ![t] = "idle"]
    /\ call' = [call EXCEPT ![t] = NoCall]
    /\ lock_ret' = [lock_ret EXCEPT ![t] = 0]
    /\ unlock_ret' = [unlock_ret EXCEPT ![t] = 0]
    /\ handler_ret' = [handler_ret EXCEPT ![t] = "none"]
    /\ UNCHANGED <<resource_mutex_list_mutex, process_exited>>
    /\ UNCHANGED <<route_vars, conn_vars, server_vars>>

(***************************************************************************)
(* parse_request_method, router.c:376-377: a connection whose method token *)
(* is not one of the nine verbs ends the whole process with exit().        *)
(***************************************************************************)
parse_request_method_exit(t) ==
    /\ ~process_exited
    /\ pc[t] = "idle"
    /\ process_exited' = TRUE
    /\ resource_mutex_list' = << >>
    /\ resource_mutex_list_mutex' = {}
    /\ pc' = [u \in Threads |-> "exited"]
    /\ call' = [u \in Threads |-> NoCall]
    /\ lock_ret' = [u \in Threads |-> 0]
    /\ unlock_ret' = [u \in Threads |-> 0]
    /\ handler_ret' = [u \in Threads |-> "none"]
    /\ UNCHANGED <<route_vars, conn_vars, server_vars>>

RegistryNext ==
    \E t \in Threads :
        \/ \E c \in FileCalls : file_function_entry(t, c)
        \/ resource_mutex_lock_enter(t)
        \/ resource_mutex_lock_found(t)
        \/ resource_mutex_lock_nomem(t)
        \/ resource_mutex_lock_new(t)
        \/ \E opened \in BOOLEAN : open_shared_file(t, opened)
        \/ \E allocated \in BOOLEAN : file_function_body(t, allocated)
        \/ resource_mutex_unlock_enter(t)
        \/ \E released \in BOOLEAN : resource_mutex_unlock_walk(t, released)
        \/ thread_exit(t)
        \/ parse_request_method_exit(t)

Next == RegistryNext

Spec == Init /\ [][Next]_vars

(***************************************************************************)
(* Strings are sequences of characters, so that strcmp, strncmp and        *)
(* memmove work on them as they do in C.  The URL patterns of the routes   *)
(* table, main.c:33-40.                                                    *)
(***************************************************************************)
url_index ==
    << "/" >>
url_frida ==
    << "/", "f", "r", "i", "d", "a", "-", "k", "a", "h", "l", "o" >>
url_jean ==
    << "/", "j", "e", "a", "n", "-", "m", "i", "c", "h", "e", "l", "-",
       "b", "a", "s", "q", "u", "i", "a", "t" >>
url_vincent ==
    << "/", "v", "i", "n", "c", "e", "n", "t", "-", "v", "a", "n", "-",
       "g", "o", "g", "h" >>
url_images ==
    << "^", "/", "p", "u", "b", "l", "i", "c", "/", "i", "m", "a", "g",
       "e", "s", "/" >>
url_comments ==
    << "/", "c", "o", "m", "m", "e", "n", "t", "s" >>

\* The pattern of the image route without its sentinel.
images_prefix == Tail(url_images)

\* The routes table, main.c:33-40.
routes ==
    << [method |-> "GET",  url |-> url_index,    action |-> "send_index_page"],
       [method |-> "GET",  url |-> url_frida,    action |-> "send_frida_page"],
       [method |-> "GET",  url |-> url_jean,     action |-> "send_jean_page"],
       [method |-> "GET",  url |-> url_vincent,  action |-> "send_vincent_page"],
       [method |-> "GET",  url |-> url_images,   action |-> "send_image"],
       [method |-> "POST", url |-> url_comments, action |-> "create_comment"] >>

\* main.c:45
num_routes == Len(routes)

\* enum request_method, router.h:29-40.
request_method ==
    {"GET", "POST", "PUT", "DELETE", "PATCH", "HEAD", "OPTIONS", "TRACE",
     "CONNECT"}

\* router.h:15-16
RESPONSE_SUCCESS == 0
RESPONSE_ERROR == -1

(***************************************************************************)
(* The paths a parsed request can carry: the patterns themselves, paths    *)
(* under the image prefix, and paths one character away from a pattern.    *)
(***************************************************************************)
RequestPaths ==
    { url_index, url_frida, url_jean, url_vincent, url_comments, url_images,
      images_prefix,
      images_prefix \o << "a", ".", "p", "n", "g" >>,
      images_prefix \o << ".", ".", "/", "x" >>,
      SubSeq(images_prefix, 1, Len(images_prefix) - 1),
      << "/", "n", "o", "p", "e" >>,
      url_frida \o << "/" >>,
      SubSeq(url_frida, 1, Len(url_frida) - 1) }

(***************************************************************************)
(* strncmp and strcmp of the C library: 0 when the strings agree (on the   *)
(* first n characters), a non-zero value otherwise.  A string that ends    *)
(* is compared by its terminating NUL.                                     *)
(***************************************************************************)
RECURSIVE strncmp(_, _, _)
strncmp(a, b, n) ==
    IF n = 0 THEN 0
    ELSE IF a = << >> /\ b = << >> THEN 0
    ELSE IF a = << >> THEN -1
    ELSE IF b = << >> THEN 1
    ELSE IF Head(a) # Head(b) THEN 1
    ELSE strncmp(Tail(a), Tail(b), n - 1)

strcmp(a, b) == strncmp(a, b, Len(a) + Len(b) + 1)

\* is_route_matching without the sentinel branch: every pattern is compared
\* byte for byte.
is_route_matching_exact_only(pattern, path) == strcmp(pattern, path)

\* is_route_matching with every pattern compared as a prefix.
is_route_matching_prefix_only(pattern, path) ==
    IF pattern[1] = "^"
      THEN strncmp(Tail(pattern), path, Len(Tail(pattern)))
      ELSE strncmp(pattern, path, Len(pattern))

\* router.c:432-444
is_route_matching(pattern, path) ==
    IF pattern[1] = "^"
      THEN strncmp(Tail(pattern), path, Len(Tail(pattern)))
      ELSE strcmp(pattern, path)

\* The loop of route() started one entry too late.
RECURSIVE route_scan_off_by_one(_, _)
route_scan_off_by_one(req, i) ==
    IF i + 1 > num_routes THEN 0
    ELSE IF /\ req.method = routes[i + 1].method
            /\ is_route_matching(routes[i + 1].url, req.path) = 0
      THEN i + 1
    ELSE route_scan_off_by_one(req, i + 1)

\* The loop of route(), router.c:157-161: the first index from i on whose
\* entry has the method of the request and a matching url; 0 when none.
RECURSIVE route_scan(_, _)
route_scan(req, i) ==
    IF i > num_routes THEN 0
    ELSE IF /\ req.method = routes[i].method
            /\ is_route_matching(routes[i].url, req.path) = 0
      THEN i
    ELSE route_scan(req, i + 1)

\* router.c:391-416
request_method_to_string(method) ==
    IF method \in request_method THEN method ELSE "UNKNOWN"

\* server.c:165: memmove(path, path + 1, strlen(path)).
memmove_path(path) == Tail(path)

(***************************************************************************)
(* What a route action returns and what it has written to the socket by    *)
(* then.  send_html_page (route_actions_helper.c:127-158), send_binary_data*)
(* (174-202: the header is written before the content), create_comment     *)
(* (server.c:188-218: 415, 400 and 201 are sent by send_json_response).    *)
(***************************************************************************)
ActionOutcomes(action) ==
    IF action = "send_image" THEN
        { [ret |-> RESPONSE_SUCCESS,
           written |-> << "200 image header", "image content" >>],
          [ret |-> RESPONSE_ERROR, written |-> << "200 image header" >>],
          [ret |-> RESPONSE_ERROR, written |-> << >>] }
    ELSE IF action = "create_comment" THEN
        { [ret |-> RESPONSE_SUCCESS, written |-> << "415 json" >>],
          [ret |-> RESPONSE_SUCCESS, written |-> << "400 json" >>],
          [ret |-> RESPONSE_SUCCESS, written |-> << "201 json" >>],
          [ret |-> RESPONSE_ERROR, written |-> << >>] }
    ELSE
        { [ret |-> RESPONSE_SUCCESS, written |-> << "200 html page" >>],
          [ret |-> RESPONSE_ERROR, written |-> << >>] }

\* The string asprintf builds at router.c:173, 182 and 200.
StatusMessage(text, req) ==
    [text |-> text, path |-> req.path,
     method |-> request_method_to_string(req.method)]

\* How the write and the asprintf of route() can end: both succeed, the
\* write returns a negative value, or asprintf does.
RouteIO == {"ok", "write < 0", "asprintf < 0"}

\* route() returns NULL (router.c:170, 176, 185, 197, 203).
NullStatus == [text |-> "NULL", path |-> << >>, method |-> ""]

RouteInit ==
    /\ RegistryInit
    /\ ConnIdle
    /\ ServerIdle
    /\ \E m \in request_method, p \in RequestPaths :
          parsed_request = [method |-> m, path |-> p]
    /\ http_request = parsed_request
    /\ route_pc = "route"
    /\ invoked = << >>
    /\ socket = << >>
    /\ status_message = NoStatus

\* router.c:157-163: the scan, and the call of the action of the entry found.
route_match ==
    LET i == route_scan(http_request, 1) IN
    /\ route_pc = "route"
    /\ IF i = 0
         THEN /\ route_pc' = "no_match"
              /\ UNCHANGED invoked
         ELSE /\ route_pc' = "action"
              /\ invoked' = Append(invoked, i)
    /\ UNCHANGED <<parsed_request, http_request, socket, status_message>>
    /\ UNCHANGED <<registry_vars, conn_vars, server_vars>>

\* route() falling through to its 500 branch after an action that returned
\* RESPONSE_SUCCESS.
route_action_falls_through(outcome, io) ==
    LET action == routes[invoked[Len(invoked)]].action IN
    /\ route_pc = "action"
    /\ outcome \in ActionOutcomes(action)
    /\ http_request' =
          IF action = "send_image"
            THEN [http_request EXCEPT !.path = memmove_path(@)]
            ELSE http_request
    /\ IF outcome.ret # RESPONSE_SUCCESS
         THEN /\ io = "ok"
              /\ socket' = socket \o outcome.written
              /\ route_pc' = "action_failed"
              /\ UNCHANGED status_message
         ELSE /\ socket' = Append(socket \o outcome.written, "response_500")
              /\ route_pc' = "returned"
              /\ status_message' =
                    IF io = "ok" THEN StatusMessage("served", http_request')
                    ELSE NullStatus
    /\ UNCHANGED <<parsed_request, invoked>>
    /\ UNCHANGED <<registry_vars, conn_vars, server_vars>>

\* router.c:163-189: the action runs and returns; on RESPONSE_SUCCESS route()
\* builds the status string and returns (io is how that asprintf ends; it
\* is not reached on another return value).  send_image shifts the path of
\* the request it was given (server.c:165).
route_action(outcome, io) ==
    LET action == routes[invoked[Len(invoked)]].action IN
    /\ route_pc = "action"
    /\ outcome \in ActionOutcomes(action)
    /\ http_request' =
          IF action = "send_image"
            THEN [http_request EXCEPT !.path = memmove_path(@)]
            ELSE http_request
    /\ socket' = socket \o outcome.written
    /\ IF outcome.ret # RESPONSE_SUCCESS
         THEN /\ io = "ok"
              /\ route_pc' = "action_failed"
              /\ UNCHANGED status_message
         ELSE /\ route_pc' = "returned"
              /\ status_message' =
                    IF io = "ok" THEN StatusMessage("served", http_request')
                    ELSE NullStatus
    /\ UNCHANGED <<parsed_request, invoked>>
    /\ UNCHANGED <<registry_vars, conn_vars, server_vars>>

\* The failure branch of route() with the 404 text in place of the 500 one.
route_500_writes_404(io) ==
    /\ route_pc = "action_failed"
    /\ socket' = IF io = "write < 0" THEN socket
                 ELSE Append(socket, "response_404")
    /\ status_message' =
          IF io = "ok" THEN StatusMessage("404", http_request)
          ELSE NullStatus
    /\ route_pc' = "returned"
    /\ UNCHANGED <<parsed_request, http_request, invoked>>
    /\ UNCHANGED <<registry_vars, conn_vars, server_vars>>

\* router.c:165-179: the fixed 500 response.
route_500(io) ==
    /\ route_pc = "action_failed"
    /\ socket' = IF io = "write < 0" THEN socket
                 ELSE Append(socket, "response_500")
    /\ status_message' =
          IF io = "ok" THEN StatusMessage("500", http_request)
          ELSE NullStatus
    /\ route_pc' = "returned"
    /\ UNCHANGED <<parsed_request, http_request, invoked>>
    /\ UNCHANGED <<registry_vars, conn_vars, server_vars>>

\* router.c:192-206: the fixed 404 response.
route_404(io) ==
    /\ route_pc = "no_match"
    /\ socket' = IF io = "write < 0" THEN socket
                 ELSE Append(socket, "response_404")
    /\ status_message' =
          IF io = "ok" THEN StatusMessage("404", http_request)
          ELSE NullStatus
    /\ route_pc' = "returned"
    /\ UNCHANGED <<parsed_request, http_request, invoked>>
    /\ UNCHANGED <<registry_vars, conn_vars, server_vars>>

\* All the outcomes an action of the table can have.
AllOutcomes ==
    UNION {ActionOutcomes(routes[i].action) : i \in 1..num_routes}

RouteNext ==
    \/ route_match
    \/ \E outcome \in AllOutcomes, io \in {"ok", "asprintf < 0"} :
          route_action(outcome, io)
    \/ \E io \in RouteIO : route_500(io)
    \/ \E io \in RouteIO : route_404(io)

SpecRoute == RouteInit /\ [][RouteNext]_vars


(***************************************************************************)
(*            http_request_constructor, router.c:218-343                   *)
(*                                                                         *)
(* A string is the sequence of its characters up to the terminating NUL.   *)
(***************************************************************************)
\* router.h:14, the size of the body field.
MAX_REQUEST_BODY_LENGTH == 4096

\* The characters isspace() accepts.
Whitespace == {" ", "\t", "\n", "\r", "\f"}

\* The content of memory that was never written: no string of characters
\* equals it.
Indeterminate == << "indeterminate" >>

\* The ascending sequence of a finite set of integers.
RECURSIVE Ascending(_)
Ascending(S) ==
    IF S = {} THEN << >>
    ELSE LET m == CHOOSE x \in S : \A y \in S : x <= y
         IN  << m >> \o Ascending(S \ {m})

\* The tokens strtok(s, "\n") and the strtok(NULL, "\n") that follow return
\* (router.c:223, 232): the maximal runs of characters other than '\n', in
\* order.  A run of several '\n' separates two tokens like a single one.
strtok(s) ==
    LET starts == Ascending({i \in 1..Len(s) :
                      s[i] # "\n" /\ (i = 1 \/ s[i - 1] = "\n")})
        ends == Ascending({i \in 1..Len(s) :
                      s[i] # "\n" /\ (i = Len(s) \/ s[i + 1] = "\n")})
    IN  [k \in 1..Len(starts) |-> SubSeq(s, starts[k], ends[k])]

\* sscanf skipping white space from position i on.
RECURSIVE skip_whitespace(_, _)
skip_whitespace(line, i) ==
    IF i <= Len(line) /\ line[i] \in Whitespace
      THEN skip_whitespace(line, i + 1)
      ELSE i

\* The position behind the characters a conversion of the given width
\* reads from position i on, stopping before a character of the set stop.
RECURSIVE scan_end(_, _, _, _)
scan_end(line, i, stop, width) ==
    IF width > 0 /\ i <= Len(line) /\ line[i] \notin stop
      THEN scan_end(line, i + 1, stop, width - 1)
      ELSE i

\* The scan of the request line with a path conversion one character
\* narrower.
sscanf_request_line_narrow_path(line) ==
    LET m0 == skip_whitespace(line, 1)
        m1 == scan_end(line, m0, Whitespace, 7)
        p0 == skip_whitespace(line, m1)
        p1 == scan_end(line, p0, Whitespace, 98)
        v0 == skip_whitespace(line, p1)
        v1 == scan_end(line, v0, Whitespace, 9)
    IN  [request_method_string |->
            IF m1 > m0 THEN SubSeq(line, m0, m1 - 1) ELSE Indeterminate,
         path |->
            IF m1 > m0 /\ p1 > p0 THEN SubSeq(line, p0, p1 - 1)
            ELSE Indeterminate,
         version |->
            IF m1 > m0 /\ p1 > p0 /\ v1 > v0 THEN SubSeq(line, v0, v1 - 1)
            ELSE Indeterminate]

\* router.c:225: sscanf(line, "%7s %99s %9s", ...).  A conversion that
\* finds no character ends the scan: its target and the later ones keep
\* what they held.
sscanf_request_line(line) ==
    LET m0 == skip_whitespace(line, 1)
        m1 == scan_end(line, m0, Whitespace, 7)
        p0 == skip_whitespace(line, m1)
        p1 == scan_end(line, p0, Whitespace, 99)
        v0 == skip_whitespace(line, p1)
        v1 == scan_end(line, v0, Whitespace, 9)
    IN  [request_method_string |->
            IF m1 > m0 THEN SubSeq(line, m0, m1 - 1) ELSE Indeterminate,
         path |->
            IF m1 > m0 /\ p1 > p0 THEN SubSeq(line, p0, p1 - 1)
            ELSE Indeterminate,
         version |->
            IF m1 > m0 /\ p1 > p0 /\ v1 > v0 THEN SubSeq(line, v0, v1 - 1)
            ELSE Indeterminate]

\* router.c:258: sscanf(line, "%49[^:]:%199s", key, value); n is the
\* number of conversions made.
sscanf_header(line) ==
    LET k1 == scan_end(line, 1, {":"}, 49)
        colon == k1 > 1 /\ k1 <= Len(line) /\ line[k1] = ":"
        v0 == skip_whitespace(line, k1 + 1)
        v1 == scan_end(line, v0, Whitespace, 199)
    IN  [n |-> IF k1 = 1 THEN 0 ELSE IF colon /\ v1 > v0 THEN 2 ELSE 1,
         key |-> SubSeq(line, 1, k1 - 1),
         value |-> IF colon /\ v1 > v0 THEN SubSeq(line, v0, v1 - 1)
                   ELSE Indeterminate]

\* strncpy(dest, src, n) followed by dest[n] = '\0'.
strncpy(src, n) == IF Len(src) <= n THEN src ELSE SubSeq(src, 1, n)
\* The spellings parse_request_method compares with, router.c:357-374.
method_strings ==
    [m \in request_method |->
        IF m = "GET" THEN << "G", "E", "T" >>
        ELSE IF m = "POST" THEN << "P", "O", "S", "T" >>
        ELSE IF m = "PUT" THEN << "P", "U", "T" >>
        ELSE IF m = "DELETE" THEN << "D", "E", "L", "E", "T", "E" >>
        ELSE IF m = "PATCH" THEN << "P", "A", "T", "C", "H" >>
        ELSE IF m = "HEAD" THEN << "H", "E", "A", "D" >>
        ELSE IF m = "OPTIONS" THEN << "O", "P", "T", "I", "O", "N", "S" >>
        ELSE IF m = "TRACE" THEN << "T", "R", "A", "C", "E" >>
        ELSE << "C", "O", "N", "N", "E", "C", "T" >>]

\* The header names the parser stores, with the field and the size of the
\* field of struct http_request each one goes to (router.c:260-335,
\* router.h:46-68).
header_fields ==
    <<
      [key |-> << "H", "o", "s", "t" >>,
       field |-> "host", size |-> 100],
      [key |-> << "C", "o", "n", "n", "e", "c", "t", "i", "o", "n" >>,
       field |-> "connection", size |-> 20],
      [key |-> << "s", "e", "c", "-", "c", "h", "-", "u", "a" >>,
       field |-> "sec_ch_ua", size |-> 100],
      [key |-> << "s", "e", "c", "-", "c", "h", "-", "u", "a", "-", "m", "o", "b", "i", "l", "e" >>,
       field |-> "sec_ch_ua_mobile", size |-> 20],
      [key |-> << "s", "e", "c", "-", "c", "h", "-", "u", "a", "-", "p", "l", "a", "t", "f", "o", "r", "m" >>,
       field |-> "sec_ch_ua_platform", size |-> 20],
      [key |-> << "U", "s", "e", "r", "-", "A", "g", "e", "n", "t" >>,
       field |-> "user_agent", size |-> 200],
      [key |-> << "A", "c", "c", "e", "p", "t" >>,
       field |-> "accept", size |-> 200],
      [key |-> << "S", "e", "c", "-", "F", "e", "t", "c", "h", "-", "S", "i", "t", "e" >>,
       field |-> "sec_fetch_site", size |-> 20],
      [key |-> << "S", "e", "c", "-", "F", "e", "t", "c", "h", "-", "M", "o", "d", "e" >>,
       field |-> "sec_fetch_mode", size |-> 20],
      [key |-> << "S", "e", "c", "-", "F", "e", "t", "c", "h", "-", "D", "e", "s", "t" >>,
       field |-> "sec_fetch_dest", size |-> 20],
      [key |-> << "R", "e", "f", "e", "r", "e", "r" >>,
       field |-> "referer", size |-> 100],
      [key |-> << "A", "c", "c", "e", "p", "t", "-", "E", "n", "c", "o", "d", "i", "n", "g" >>,
       field |-> "accept_encoding", size |-> 100],
      [key |-> << "A", "c", "c", "e", "p", "t", "-", "L", "a", "n", "g", "u", "a", "g", "e" >>,
       field |-> "accept_language", size |-> 100],
      [key |-> << "C", "o", "o", "k", "i", "e" >>,
       field |-> "cookie", size |-> 100],
      [key |-> << "C", "o", "n", "t", "e", "n", "t", "-", "T", "y", "p", "e" >>,
       field |-> "content_type", size |-> 200]
    >>

\* The fields of struct http_request (router.h:46-68) and the success flag
\* the constructor sets.
RequestFields ==
    {"method", "path", "version", "body", "success"}
        \cup {header_fields[i].field : i \in DOMAIN header_fields}

\* The local struct of the constructor before anything is stored in it
\* (router.c:220).
UninitializedRequest == [f \in RequestFields |-> Indeterminate]

\* router.c:260-335: the value of a header with one of the stored names
\* goes to its field, cut to the size of the field; a header with another
\* name is dropped.
store_header(req, key, value) ==
    IF \E i \in DOMAIN header_fields : header_fields[i].key = key
      THEN LET h == header_fields[CHOOSE i \in DOMAIN header_fields :
                                      header_fields[i].key = key]
           IN  [req EXCEPT ![h.field] = strncpy(value, h.size - 1)]
      ELSE req

\* The loop of the constructor cutting a body that does not fit instead of
\* giving up.
RECURSIVE parse_lines_truncating(_, _, _, _)
parse_lines_truncating(lines, k, req, reading_body) ==
    IF k > Len(lines) THEN [req EXCEPT !.success = TRUE]
    ELSE LET line == lines[k] IN
      IF line[1] = "\r" THEN parse_lines_truncating(lines, k + 1, req, TRUE)
      ELSE IF reading_body THEN
        parse_lines_truncating(lines, k + 1,
            [req EXCEPT !.body =
                strncpy(@ \o line, MAX_REQUEST_BODY_LENGTH - 1)], TRUE)
      ELSE LET h == sscanf_header(line) IN
        parse_lines_truncating(lines, k + 1,
            IF h.n = 2 THEN store_header(req, h.key, h.value) ELSE req,
            FALSE)

\* The loop of the constructor, router.c:232-338, from token k on.
RECURSIVE parse_lines(_, _, _, _)
parse_lines(lines, k, req, reading_body) ==
    IF k > Len(lines) THEN [req EXCEPT !.success = TRUE]
    ELSE LET line == lines[k] IN
      IF line[1] = "\r" THEN parse_lines(lines, k + 1, req, TRUE)
      ELSE IF reading_body THEN
        IF Len(req.body) + Len(line) < MAX_REQUEST_BODY_LENGTH - 1
          THEN parse_lines(lines, k + 1,
                           [req EXCEPT !.body = @ \o line], TRUE)
          ELSE [req EXCEPT !.success = FALSE]
      ELSE LET h == sscanf_header(line) IN
        parse_lines(lines, k + 1,
                    IF h.n = 2 THEN store_header(req, h.key, h.value) ELSE req,
                    FALSE)

\* router.c:355-378: the methods parse_request_method can return for a
\* string, "exit" standing for the call of exit(EXIT_FAILURE).  Comparing
\* a string that was never written can end either way.
parse_request_method(method_string) ==
    IF method_string = Indeterminate THEN request_method \cup {"exit"}
    ELSE IF \E m \in request_method : method_strings[m] = method_string
      THEN {m \in request_method : method_strings[m] = method_string}
    ELSE {"exit"}

\* router.c:218-343: the structs the constructor can return for a buffer.
\* The method "exit" stands for the process ending inside
\* parse_request_method, "SIGSEGV" for sscanf reading the NULL that strtok
\* returns for a buffer without a token.
http_request_constructor(data) ==
    LET lines == strtok(data) IN
    IF lines = << >>
      THEN {[UninitializedRequest EXCEPT !.method = "SIGSEGV",
                                         !.success = FALSE]}
    ELSE LET first == sscanf_request_line(lines[1]) IN
      { IF m = "exit"
          THEN [UninitializedRequest EXCEPT !.method = "exit",
                                            !.success = FALSE]
          ELSE parse_lines(lines, 2,
                           [UninitializedRequest EXCEPT
                               !.method = m,
                               !.path = first.path,
                               !.version = first.version,
                               !.body = << >>],
                           FALSE)
        : m \in parse_request_method(first.request_method_string) }


(***************************************************************************)
(*                 The requests a client can send                          *)
(***************************************************************************)
CRLF == << "\r", "\n" >>
LF == << "\n" >>
SP == << " " >>

\* n times the character c.
Repeat(c, n) == [i \in 1..n |-> c]

HTTP_1_1 == << "H", "T", "T", "P", "/", "1", ".", "1" >>
application_json ==
    << "a", "p", "p", "l", "i", "c", "a", "t", "i", "o", "n", "/", "j", "s",
    "o", "n" >>
text_plain == << "t", "e", "x", "t", "/", "p", "l", "a", "i", "n" >>
Host_colon == << "H", "o", "s", "t", ":", " " >>
Content_Type_colon ==
    << "C", "o", "n", "t", "e", "n", "t", "-", "T", "y", "p", "e", ":", " "
    >>

json_name_and_comment ==
    << "{", "\"", "n", "a", "m", "e", "\"", ":", "\"", "A", "\"", ",", "\"",
    "c", "o", "m", "m", "e", "n", "t", "\"", ":", "\"", "B", "\"", "}" >>
json_comment_only ==
    << "{", "\"", "c", "o", "m", "m", "e", "n", "t", "\"", ":", "\"", "B",
    "\"", "}" >>
json_name_only == << "{", "\"", "n", "a", "m", "e", "\"", ":", "\"", "A", "\"", "}" >>

\* The method tokens clients send: the nine verbs and others.
MethodTokens ==
    {method_strings[m] : m \in request_method}
      \cup { << "O", "P", "T", "I", "O", "N", "S", "X" >>,
             << "C", "O", "N", "N", "E", "C", "T", "E", "D" >>,
             << "B", "R", "E", "W" >>,
             << "g", "e", "t" >> }

RequestLine(token, path, version, eol) ==
    token \o SP \o path \o SP \o version \o eol

\* <M> <path> <version>\r\nHost: <h>\r\n\r\n
WellFormed(m, path, version, h) ==
    RequestLine(method_strings[m], path, version, CRLF)
        \o Host_colon \o h \o CRLF \o CRLF

\* Paths up to the 99 characters the path field holds, versions up to 9,
\* hosts up to and beyond the 99 characters the host field holds.
WellFormedPaths ==
    { url_index, url_comments, url_frida \o << "x" >>,
      images_prefix \o << "a", ".", "p", "n", "g" >>,
      << "/" >> \o Repeat("a", 98) }
WellFormedVersions == { HTTP_1_1, HTTP_1_1 \o << "0" >> }
WellFormedHosts == { << "h" >>, Repeat("h", 99), Repeat("h", 100) }

\* Requests of that form, for every verb.
WellFormedRequests ==
    { WellFormed(m, p, v, h) :
        m \in request_method, p \in WellFormedPaths,
        v \in WellFormedVersions, h \in WellFormedHosts }

\* Requests that end before any blank line: after the request line, after
\* a header, with and without a last line end; with a header line without
\* a colon; and with a line that starts with a carriage return without
\* being blank.
RequestsWithoutBlankLine ==
    UNION { { RequestLine(method_strings[m], url_index, HTTP_1_1, << >>),
              RequestLine(method_strings[m], url_index, HTTP_1_1, eol),
              RequestLine(method_strings[m], url_index, HTTP_1_1, eol)
                  \o Host_colon \o << "h" >> \o eol,
              RequestLine(method_strings[m], url_index, HTTP_1_1, eol)
                  \o Host_colon \o << "h" >> \o eol
                  \o Content_Type_colon \o application_json,
              RequestLine(method_strings[m], url_index, HTTP_1_1, eol)
                  \o << "n", "o", "c", "o", "l", "o", "n" >> \o eol,
              RequestLine(method_strings[m], url_index, HTTP_1_1, eol)
                  \o << "\r", "X", "-", "A", ":", "b" >> \o eol
                  \o << "f", "o", "o" >> \o eol }
            : m \in {"GET", "POST"}, eol \in {CRLF, LF} }

\* Bodies: the JSON objects of a comment, and lines around the 4096
\* characters of the body field, in one line and in two.
Bodies ==
    { json_name_and_comment, json_comment_only, json_name_only,
      Repeat("a", MAX_REQUEST_BODY_LENGTH - 2),
      Repeat("a", MAX_REQUEST_BODY_LENGTH - 1),
      Repeat("a", MAX_REQUEST_BODY_LENGTH),
      Repeat("a", 2047) \o LF \o Repeat("b", 2047),
      Repeat("a", 2048) \o LF \o Repeat("b", 2048),
      Repeat("a", 2500) \o CRLF \o Repeat("b", 2500) }

\* POST /comments with a body behind a blank line (CRLF, or a bare LF),
\* with a Content-Type header or without one.
RequestsWithBody ==
    { RequestLine(method_strings["POST"], url_comments, HTTP_1_1, CRLF)
          \o ct \o sep \o body :
        ct \in { << >>,
                 Content_Type_colon \o application_json \o CRLF,
                 Content_Type_colon \o text_plain \o CRLF,
                 Content_Type_colon \o application_json
                     \o << ";", " ", "q" >> \o CRLF },
        sep \in {CRLF, LF},
        body \in Bodies }

\* Requests with a method token that is none of the nine verbs, a path of
\* 100 characters, and connections that carry no line at all.
OtherRequests ==
    { RequestLine(token, url_index, HTTP_1_1, CRLF) \o CRLF :
        token \in MethodTokens }
      \cup { RequestLine(method_strings["GET"], Repeat("/", 100), HTTP_1_1,
                         CRLF) \o CRLF,
             << >>, LF }

Requests ==
    WellFormedRequests \cup RequestsWithoutBlankLine
        \cup RequestsWithBody \cup OtherRequests

\* What the buffer of handle_request, which is not initialized, can hold
\* behind the bytes read, up to the first NUL there.
StackResidue == { << >>, << "x" >> }

(***************************************************************************)
(*     A connection: handle_connection (main.c:133-149), handle_request    *)
(*     (router.c:116-139), route() and create_comment (server.c:188-218)   *)
(***************************************************************************)
\* server.c:78-79
NAME_MAX_LENGTH == 25
COMMENT_MAX_LENGTH == 200

\* A null pointer where a string is expected.
NULL == << "NULL" >>

\* The flat JSON objects among the bodies, with the string each holds for
\* a key.
JsonObjects ==
    { [text |-> json_name_and_comment,
       name |-> << "A" >>, comment |-> << "B" >>],
      [text |-> json_comment_only, name |-> NULL, comment |-> << "B" >>],
      [text |-> json_name_only, name |-> << "A" >>, comment |-> NULL] }

\* The string of at most max_length characters a flat JSON object holds
\* for a key, NULL when there is none.
value_for_key_json_parser(body, key, max_length) ==
    IF \E o \in JsonObjects :
          /\ o.text = body
          /\ o[key] # NULL
          /\ Len(o[key]) \in 1..max_length
      THEN (CHOOSE o \in JsonObjects : o.text = body)[key]
      ELSE NULL

comments_file == "data/comments.txt"

\* The connection thread of this section.
ConnectionThread == 1

RequestInit ==
    /\ RegistryInit
    /\ RouteIdle
    /\ ServerIdle
    /\ inbound \in Requests
    /\ request_data = << >>
    /\ handle_pc = "handle_request"
    /\ comments_txt = << >>

\* router.c:118-128: read() fills the first bytes of the buffer and stores
\* no NUL behind them; a negative result ends handle_request with NULL.
handle_request_read(bytesRead_ok, residue) ==
    /\ handle_pc = "handle_request"
    /\ IF bytesRead_ok
         THEN /\ request_data' = inbound \o residue
              /\ handle_pc' = "http_request_constructor"
              /\ UNCHANGED status_message
         ELSE /\ residue = << >>
              /\ handle_pc' = "handled"
              /\ status_message' = NullStatus
              /\ UNCHANGED request_data
    /\ UNCHANGED <<parsed_request, http_request, route_pc, invoked, socket,
                   inbound, comments_txt>>
    /\ UNCHANGED <<registry_vars, server_vars>>

\* router.c:130-138: the constructor runs; the process ends inside it, or
\* handle_request returns NULL for a struct without success, or calls
\* route().
handle_request_parse ==
    /\ handle_pc = "http_request_constructor"
    /\ \E r \in http_request_constructor(request_data) :
          IF r.method \in {"exit", "SIGSEGV"}
            THEN /\ process_exited' = TRUE
                 /\ handle_pc' = "exited"
                 /\ UNCHANGED <<parsed_request, http_request, route_pc,
                                status_message>>
            ELSE /\ UNCHANGED process_exited
                 /\ http_request' = r
                 /\ IF r.success
                      THEN /\ parsed_request' = r
                           /\ route_pc' = "route"
                           /\ handle_pc' = "route"
                           /\ UNCHANGED status_message
                      ELSE /\ handle_pc' = "handled"
                           /\ status_message' = NullStatus
                           /\ UNCHANGED <<parsed_request, route_pc>>
    /\ UNCHANGED <<resource_mutex_list, resource_mutex_list_mutex, pc, call,
                   lock_ret, unlock_ret, handler_ret>>
    /\ UNCHANGED <<invoked, socket, inbound, request_data, comments_txt>>
    /\ UNCHANGED server_vars

\* The list after resource_mutex_lock(path) run by thread t with no other
\* thread about (mutex.c:46-81): the node the walk stops on is locked, or
\* a new node is appended unless its malloc fails.
locked_list(list, path, t, allocated) ==
    LET i == lock_walk(list, path, 1) IN
    IF i # 0
      THEN [list EXCEPT ![i].locked = TRUE, ![i].owner = {t}]
    ELSE IF allocated THEN Append(list, resource_mutex(path, t))
    ELSE list

\* The list after resource_mutex_unlock(path) (mutex.c:94-117).
unlocked_list(list, path) ==
    LET i == unlock_walk(list, path, 1) IN
    IF i # 0
      THEN [list EXCEPT ![i].locked = FALSE, ![i].owner = {}]
      ELSE list

(***************************************************************************)
(* route() calls create_comment (router.c:163, server.c:188-218) and acts  *)
(* on what it returns (router.c:165-189).  strcmp_result is the result of  *)
(* the comparison with the content_type field, which holds what the        *)
(* Content-Type header stored, or what was there before when no such       *)
(* header came; json_sent tells whether send_json_response                 *)
(* (route_actions_helper.c:81-112) wrote its response; allocated and       *)
(* opened are the malloc of the lock node and the fopen of save_comment    *)
(* (route_actions_helper.c:290-307).                                       *)
(***************************************************************************)
route_create_comment(strcmp_result, json_sent, allocated, opened, io) ==
    LET name == value_for_key_json_parser(http_request.body, "name",
                                          NAME_MAX_LENGTH)
        comment == value_for_key_json_parser(http_request.body, "comment",
                                             COMMENT_MAX_LENGTH)
        response == IF strcmp_result # 0 THEN "415 json"
                    ELSE IF name = NULL \/ comment = NULL THEN "400 json"
                    ELSE "201 json"
        saving == response = "201 json"
        locked == locked_list(resource_mutex_list, comments_file,
                              ConnectionThread, allocated)
        ret == IF saving /\ ~opened THEN RESPONSE_ERROR
               ELSE IF json_sent THEN RESPONSE_SUCCESS
               ELSE RESPONSE_ERROR
    IN
    /\ route_pc = "action"
    /\ routes[invoked[Len(invoked)]].action = "create_comment"
    /\ strcmp_result \in
          IF http_request.content_type = Indeterminate THEN {0, 1}
          ELSE IF http_request.content_type = application_json THEN {0}
          ELSE {1}
    /\ ~saving => allocated /\ opened
    /\ (saving /\ ~opened) => json_sent
    /\ resource_mutex_list' =
          IF ~saving THEN resource_mutex_list
          ELSE IF ~opened THEN locked
          ELSE unlocked_list(locked, comments_file)
    /\ comments_txt' =
          IF saving /\ opened
            THEN Append(comments_txt, [name |-> name, comment |-> comment])
            ELSE comments_txt
    /\ socket' = IF ret = RESPONSE_SUCCESS THEN Append(socket, response)
                 ELSE socket
    /\ IF ret # RESPONSE_SUCCESS
         THEN /\ io = "ok"
              /\ route_pc' = "action_failed"
              /\ UNCHANGED status_message
         ELSE /\ route_pc' = "returned"
              /\ status_message' =
                    IF io = "ok" THEN StatusMessage("served", http_request)
                    ELSE NullStatus
    /\ UNCHANGED <<parsed_request, http_request, invoked>>
    /\ UNCHANGED <<resource_mutex_list_mutex, pc, call, lock_ret, unlock_ret,
                   handler_ret, process_exited>>
    /\ UNCHANGED <<inbound, request_data, handle_pc>>
    /\ UNCHANGED server_vars

\* route() calls one of the other actions of the table.
route_other_action(outcome, io) ==
    /\ route_pc = "action"
    /\ routes[invoked[Len(invoked)]].action # "create_comment"
    /\ route_action(outcome, io)

\* main.c:137-148: handle_request has returned; the status string is
\* printed and freed, the socket is shut down and closed, the thread ends.
handle_connection_close ==
    /\ \/ handle_pc = "handled"
       \/ handle_pc = "route" /\ route_pc = "returned"
    /\ handle_pc' = "closed"
    /\ UNCHANGED <<inbound, request_data, comments_txt>>
    /\ UNCHANGED <<registry_vars, route_vars, server_vars>>

RequestNext ==
    \/ \E ok \in BOOLEAN, residue \in StackResidue :
          handle_request_read(ok, residue)
    \/ handle_request_parse
    \/ route_match
    \/ \E outcome \in AllOutcomes, io \in {"ok", "asprintf < 0"} :
          route_other_action(outcome, io)
    \/ \E strcmp_result \in {0, 1}, json_sent, allocated, opened \in BOOLEAN,
          io \in {"ok", "asprintf < 0"} :
          route_create_comment(strcmp_result, json_sent, allocated, opened, io)
    \/ \E io \in RouteIO : route_500(io)
    \/ \E io \in RouteIO : route_404(io)
    \/ handle_connection_close

SpecRequest == RequestInit /\ [][RequestNext]_vars

(***************************************************************************)
(*        main, launch, handle_shutdown and handle_connection (main.c)     *)
(*                                                                         *)
(* The main thread runs main and launch; every accepted connection gets a  *)
(* detached thread that runs handle_connection; SIGINT runs                *)
(* handle_shutdown on whichever thread the kernel picks, so its two        *)
(* effects interleave with the steps of the others.  process_exited tells  *)
(* that the process has ended: exit() was called, main returned, or the    *)
(* process crashed.  No thread takes a step after that.                    *)
(***************************************************************************)

\* main.c:85-99: the configuration is loaded, the server is constructed
\* and main calls server.launch.
main ==
    /\ ~process_exited
    /\ launch_pc = "main"
    /\ launch_pc' = "launch"
    /\ UNCHANGED <<shutdown_flag, global_server, server_socket, client_socket,
                   handle_shutdown_pc, connection>>
    /\ UNCHANGED <<registry_vars, route_vars, conn_vars>>

\* main.c:106-112: launch stores the server for the handler and installs
\* handle_shutdown for SIGINT.
launch ==
    /\ ~process_exited
    /\ launch_pc = "launch"
    /\ global_server' = "server"
    /\ launch_pc' = "while"
    /\ UNCHANGED <<shutdown_flag, server_socket, client_socket,
                   handle_shutdown_pc, connection>>
    /\ UNCHANGED <<registry_vars, route_vars, conn_vars>>

\* The slots of the thread table that pthread_create has not filled.
FreeSlots == { c \in Connections : connection[c].pc = "none" }

\* main.c:114, 130: the test of the loop; launch returns when the flag is
\* set.  The loop goes on for as long as the thread table has room.
launch_while ==
    /\ ~process_exited
    /\ launch_pc = "while"
    /\ IF shutdown_flag = 0
         THEN /\ FreeSlots # {}
              /\ launch_pc' = "accept"
         ELSE launch_pc' = "return"
    /\ UNCHANGED <<shutdown_flag, global_server, server_socket, client_socket,
                   handle_shutdown_pc, connection>>
    /\ UNCHANGED <<registry_vars, route_vars, conn_vars>>

\* The descriptor accept returns for the connection that fills slot c.
descriptor(c) == 3 + c

\* main.c:118: accept returns the descriptor of a new connection, which
\* takes a listening socket, or -1: the socket was shut down or closed, or
\* the call failed for another reason.  The result is not tested.
accept(connected) ==
    /\ ~process_exited
    /\ launch_pc = "accept"
    /\ IF connected
         THEN /\ server_socket = "listening"
              /\ client_socket' = descriptor(CHOOSE c \in FreeSlots :
                                      \A d \in FreeSlots : c <= d)
         ELSE client_socket' = -1
    /\ launch_pc' = "pthread_create"
    /\ UNCHANGED <<shutdown_flag, global_server, server_socket,
                   handle_shutdown_pc, connection>>
    /\ UNCHANGED <<registry_vars, route_vars, conn_vars>>

\* main.c:120-127: a thread is started on handle_connection with what
\* accept returned.  When pthread_create fails the thread id it should
\* have stored is indeterminate and pthread_detach is called on it all the
\* same: the call fails, or the process crashes.
pthread_create(created, detach_crashes) ==
    /\ ~process_exited
    /\ launch_pc = "pthread_create"
    /\ IF created
         THEN /\ ~detach_crashes
              /\ LET c == CHOOSE c \in FreeSlots : \A d \in FreeSlots : c <= d
                 IN connection' = [connection EXCEPT ![c] =
                        [pc |-> "handle_request",
                         client_socket |-> client_socket]]
              /\ UNCHANGED process_exited
         ELSE /\ process_exited' = detach_crashes
              /\ UNCHANGED connection
    /\ launch_pc' = "while"
    /\ UNCHANGED <<shutdown_flag, global_server, server_socket, client_socket,
                   handle_shutdown_pc>>
    /\ UNCHANGED <<resource_mutex_list, resource_mutex_list_mutex, pc, call,
                   lock_ret, unlock_ret, handler_ret>>
    /\ UNCHANGED <<route_vars, conn_vars>>

\* main.c:130, 101: launch returns to main, and main returns
\* EXIT_SUCCESS at once, which ends the process and every thread in it.
main_return ==
    /\ ~process_exited
    /\ launch_pc = "return"
    /\ launch_pc' = "main returned"
    /\ process_exited' = TRUE
    /\ UNCHANGED <<shutdown_flag, global_server, server_socket, client_socket,
                   handle_shutdown_pc, connection>>
    /\ UNCHANGED <<resource_mutex_list, resource_mutex_list_mutex, pc, call,
                   lock_ret, unlock_ret, handler_ret>>
    /\ UNCHANGED <<route_vars, conn_vars>>

\* main.c:151-155: SIGINT arrives once the handler is installed
\* (main.c:110); the handler sets the flag.
handle_shutdown ==
    /\ ~process_exited
    /\ launch_pc \notin {"main", "launch"}
    /\ handle_shutdown_pc = "none"
    /\ shutdown_flag' = 1
    /\ handle_shutdown_pc' = "shutdown"
    /\ UNCHANGED <<global_server, server_socket, launch_pc, client_socket,
                   connection>>
    /\ UNCHANGED <<registry_vars, route_vars, conn_vars>>

\* main.c:157-163: the handler shuts the listening socket down and closes
\* it.
handle_shutdown_close ==
    /\ ~process_exited
    /\ handle_shutdown_pc = "shutdown"
    /\ IF global_server # "NULL"
         THEN server_socket' = "closed"
         ELSE UNCHANGED server_socket
    /\ handle_shutdown_pc' = "returned"
    /\ UNCHANGED <<shutdown_flag, global_server, launch_pc, client_socket,
                   connection>>
    /\ UNCHANGED <<registry_vars, route_vars, conn_vars>>

\* main.c:137: handle_request reads, parses, routes and responds
\* (router.c:116-139).  read fails on a descriptor of -1 and NULL comes
\* back; on a connection the call returns the status string, or the
\* process ends inside it (router.c:376-377).
handle_connection_handle_request(c, exits) ==
    /\ ~process_exited
    /\ connection[c].pc = "handle_request"
    /\ exits => connection[c].client_socket # -1
    /\ process_exited' = exits
    /\ connection' = [connection EXCEPT ![c].pc = "printf"]
    /\ UNCHANGED <<shutdown_flag, global_server, server_socket, launch_pc,
                   client_socket, handle_shutdown_pc>>
    /\ UNCHANGED <<resource_mutex_list, resource_mutex_list_mutex, pc, call,
                   lock_ret, unlock_ret, handler_ret>>
    /\ UNCHANGED <<route_vars, conn_vars>>

\* main.c:139-143: the status string is printed under terminal_mutex and
\* freed.
handle_connection_printf(c) ==
    /\ ~process_exited
    /\ connection[c].pc = "printf"
    /\ connection' = [connection EXCEPT ![c].pc = "close"]
    /\ UNCHANGED <<shutdown_flag, global_server, server_socket, launch_pc,
                   client_socket, handle_shutdown_pc>>
    /\ UNCHANGED <<registry_vars, route_vars, conn_vars>>

\* main.c:145-148: the connection is shut down and closed, and the thread
\* ends.
handle_connection_close_socket(c) ==
    /\ ~process_exited
    /\ connection[c].pc = "close"
    /\ connection' = [connection EXCEPT ![c].pc = "pthread_exit"]
    /\ UNCHANGED <<shutdown_flag, global_server, server_socket, launch_pc,
                   client_socket, handle_shutdown_pc>>
    /\ UNCHANGED <<registry_vars, route_vars, conn_vars>>

ServerNext ==
    \/ main
    \/ launch
    \/ launch_while
    \/ \E connected \in BOOLEAN : accept(connected)
    \/ \E created, detach_crashes \in BOOLEAN :
          pthread_create(created, detach_crashes)
    \/ main_return
    \/ handle_shutdown
    \/ handle_shutdown_close
    \/ \E c \in Connections, exits \in BOOLEAN :
          handle_connection_handle_request(c, exits)
    \/ \E c \in Connections : handle_connection_printf(c)
    \/ \E c \in Connections : handle_connection_close_socket(c)

SpecServer == Init /\ [][ServerNext]_vars

(***************************************************************************)
(*                    Properties of the mutex registry                     *)
(***************************************************************************)
Filenames == {c.filename : c \in FileCalls}

NodesOf(p) ==
    {i \in DOMAIN resource_mutex_list :
        resource_mutex_list[i].resource_path = p}

\* Thread t is between a resource_mutex_lock(p) that returned 0 and the
\* end of the matching resource_mutex_unlock(p).
InCriticalSection(t, p) ==
    /\ call[t].filename = p
    /\ lock_ret[t] = 0
    /\ pc[t] \in {"fopen", "file_open", "resource_mutex_unlock", "unlock_walk"}

\* C1: at most one thread at a time is between a successful
\* resource_mutex_lock(p) and its matching resource_mutex_unlock(p).
C1_MutualExclusion ==
    \A p \in Filenames :
        Cardinality({t \in Threads : InCriticalSection(t, p)}) <= 1

\* C2: resource_mutex_list holds at most one node for any path.
C2_RegistryUniqueness ==
    \A p \in Filenames : Cardinality(NodesOf(p)) <= 1

\* Thread u holds the list mutex and is blocked in pthread_mutex_lock on a
\* node mutex that is locked (mutex.c:56).
WaitsForNode(u) ==
    /\ pc[u] = "lock_found"
    /\ resource_mutex_list_mutex = {u}
    /\ resource_mutex_list[
          lock_walk(resource_mutex_list, call[u].filename, 1)].locked

\* C3: a thread that calls resource_mutex_lock(q) while no node of q is
\* locked is never kept out by a thread that waits for another path p: it
\* does not have to wait until p is released.
C3_IndependentResources ==
    \A t \in Threads :
        ( /\ pc[t] = "resource_mutex_lock"
          /\ \A i \in NodesOf(call[t].filename) :
                ~resource_mutex_list[i].locked )
        => ~\E u \in Threads \ {t} :
              WaitsForNode(u) /\ call[u].filename # call[t].filename

\* C4: no thread waits on a per-resource mutex while it holds
\* resource_mutex_list_mutex.
C4_ListMutexReleasedBeforeBlocking ==
    \A t \in Threads : ~WaitsForNode(t)

\* C5: when a file function has returned after calling open_shared_file,
\* its thread holds no resource lock.
C5_SymmetricRelease ==
    \A t \in Threads :
        pc[t] = "returned" =>
            \A i \in DOMAIN resource_mutex_list :
                t \notin resource_mutex_list[i].owner

\* C6: when resource_mutex_lock returned -1 the caller opens, reads and
\* writes no file and reports failure.
C6_AcquireFailureAborts ==
    \A t \in Threads :
        lock_ret[t] = -1 =>
            /\ pc[t] \notin {"file_open", "resource_mutex_unlock",
                             "unlock_walk"}
            /\ pc[t] = "returned" =>
                  handler_ret[t] \in {"NULL", "RESPONSE_ERROR"}

\* C7: resource_mutex_unlock(p) with no node for p in the list returns -1,
\* leaves the list and every node mutex as they were, leaves the list mutex
\* released and does not end the process.
C7_UnlockUnknownId ==
    [][\A t \in Threads :
          ( /\ pc[t] = "unlock_walk"
            /\ pc'[t] = "returned"
            /\ NodesOf(call[t].filename) = {} )
          => /\ unlock_ret'[t] = -1
             /\ resource_mutex_list' = resource_mutex_list
             /\ resource_mutex_list_mutex' = {}
             /\ ~process_exited']_vars

\* A call of resource_mutex_unlock that found no node has returned.
C7_Witness ==
    \E t \in Threads :
        /\ pc[t] = "returned"
        /\ unlock_ret[t] = -1
        /\ NodesOf(call[t].filename) = {}
        /\ resource_mutex_list_mutex = {}

(***************************************************************************)
(*                       Properties of the dispatcher                      *)
(***************************************************************************)
IsPrefix(a, b) == Len(a) <= Len(b) /\ SubSeq(b, 1, Len(a)) = a

\* Entry i of the table has the method of req and a pattern that matches
\* its path: by prefix behind the '^' sentinel, byte for byte otherwise.
EntryMatches(i, req) ==
    /\ routes[i].method = req.method
    /\ IF routes[i].url[1] = "^"
         THEN IsPrefix(Tail(routes[i].url), req.path)
         ELSE routes[i].url = req.path

\* The lowest index of a matching entry, 0 when no entry matches.
LowestMatch(req) ==
    IF \E i \in 1..num_routes : EntryMatches(i, req)
      THEN CHOOSE i \in 1..num_routes :
              /\ EntryMatches(i, req)
              /\ \A j \in 1..(i - 1) : ~EntryMatches(j, req)
      ELSE 0

ImageRoute == CHOOSE i \in 1..num_routes : routes[i].action = "send_image"

\* C8: route() invokes the action of the lowest-index entry whose method
\* and pattern match the request, and no other action.
C8_FirstMatchWins ==
    route_pc # "route" =>
        invoked = IF LowestMatch(parsed_request) = 0 THEN << >>
                  ELSE << LowestMatch(parsed_request) >>

\* route() has returned after invoking the one matching entry.
C8_Witness ==
    /\ route_pc = "returned"
    /\ LowestMatch(parsed_request) # 0
    /\ invoked = << LowestMatch(parsed_request) >>

\* C9 as stated: every request whose path begins with "/public/images/"
\* is dispatched to the image route.
C9_PrefixSelectsImageRoute ==
    ( /\ route_pc # "route"
      /\ IsPrefix(images_prefix, parsed_request.path) )
    => invoked = << ImageRoute >>

\* C9 amended: every GET request whose path begins with "/public/images/"
\* is dispatched to the image route, whatever follows the prefix.
C9_GetPrefixSelectsImageRoute ==
    ( /\ route_pc # "route"
      /\ parsed_request.method = "GET"
      /\ IsPrefix(images_prefix, parsed_request.path) )
    => invoked = << ImageRoute >>

\* A GET for a path that leaves the directory again went to send_image.
C9_Witness ==
    /\ route_pc = "returned"
    /\ parsed_request.method = "GET"
    /\ parsed_request.path = images_prefix \o << ".", ".", "/", "x" >>
    /\ invoked = << ImageRoute >>

\* C10 as stated: when no entry matches, route() invokes no action, writes
\* exactly the 404 response and returns the 404 status string.
C10_NoMatchYields404 ==
    ( /\ route_pc = "returned"
      /\ LowestMatch(parsed_request) = 0 )
    => /\ invoked = << >>
       /\ socket = << "response_404" >>
       /\ status_message = StatusMessage("404", parsed_request)

\* C10 amended: when no entry matches, route() invokes no action and writes
\* nothing but the 404 response; it returns the 404 status string naming
\* the path and the method, or NULL when write() or asprintf() failed, and
\* always NULL when nothing was written.
C10_NoMatchYields404OrNull ==
    ( /\ route_pc = "returned"
      /\ LowestMatch(parsed_request) = 0 )
    => /\ invoked = << >>
       /\ \/ /\ socket = << "response_404" >>
             /\ status_message = StatusMessage("404", parsed_request)
          \/ /\ socket \in { << >>, << "response_404" >> }
             /\ status_message = NullStatus

\* GET /nope was answered with the 404 response and the 404 status string.
C10_Witness ==
    /\ route_pc = "returned"
    /\ parsed_request = [method |-> "GET",
                         path |-> << "/", "n", "o", "p", "e" >>]
    /\ invoked = << >>
    /\ socket = << "response_404" >>
    /\ status_message = StatusMessage("404", parsed_request)

\* The step of route() that follows an action which did not return
\* RESPONSE_SUCCESS (router.c:165).
HandlerFailed == route_pc = "action_failed"

\* C11 as stated: when the selected action returns anything other than
\* RESPONSE_SUCCESS, route() writes the fixed 500 response and returns the
\* 500 status string, and tries no further entry.
C11_HandlerFailureYields500 ==
    [][HandlerFailed =>
         /\ socket' = Append(socket, "response_500")
         /\ status_message' = StatusMessage("500", http_request)
         /\ invoked' = invoked
         /\ route_pc' = "returned"]_vars

\* C11 amended: when the selected action returns anything other than
\* RESPONSE_SUCCESS, route() tries no further entry and adds nothing but
\* the fixed 500 response to the socket; it returns the 500 status string,
\* or NULL when write() or asprintf() failed, and always NULL when the 500
\* response was not written.
C11_HandlerFailureYields500OrNull ==
    [][HandlerFailed =>
         /\ invoked' = invoked
         /\ Len(invoked) = 1
         /\ route_pc' = "returned"
         /\ \/ /\ socket' = Append(socket, "response_500")
               /\ status_message' = StatusMessage("500", http_request)
            \/ /\ socket' \in {socket, Append(socket, "response_500")}
               /\ status_message' = NullStatus]_vars

\* POST /comments: create_comment failed and route() answered 500.
C11_Witness ==
    /\ route_pc = "returned"
    /\ parsed_request = [method |-> "POST", path |-> url_comments]
    /\ Len(invoked) = 1
    /\ socket = << "response_500" >>
    /\ status_message = StatusMessage("500", parsed_request)

\* The bytes route() itself writes.
DispatcherResponses == {"response_404", "response_500"}

verbs == {method_strings[m] : m \in request_method}

\* The constructor has returned a struct for request_data.
Constructed ==
    /\ handle_pc \in {"route", "handled", "closed"}
    /\ request_data # << >>

\* The struct the constructor returned: route() is handed a copy, whose
\* path send_image shifts later.
constructed_request ==
    IF route_pc = "idle" THEN http_request ELSE parsed_request

\* The first white-space delimited token of a buffer, whatever its length.
MethodToken(data) ==
    LET a == skip_whitespace(data, 1)
        b == scan_end(data, a, Whitespace, Len(data))
    IN  SubSeq(data, a, b - 1)

\* Some line of the buffer is empty or holds a carriage return only.
HasBlankLine(data) ==
    \E i \in 1..Len(data) :
        /\ data[i] = "\n"
        /\ \/ i = 1
           \/ data[i - 1] = "\n"
           \/ /\ data[i - 1] = "\r"
              /\ (i = 2 \/ data[i - 2] = "\n")

\* C13: for every buffer with one of the nine verbs and no blank line, the
\* constructor returns an empty body and success = true.
C13_NoBlankLineEmptyBody ==
    ( /\ Constructed
      /\ MethodToken(request_data) \in verbs
      /\ ~HasBlankLine(request_data) )
    => /\ constructed_request.success
       /\ constructed_request.body = << >>

\* The number of characters of the lines from token k on that follow the
\* separator line and are no separator lines themselves; seen tells
\* whether the separator came before token k.
RECURSIVE body_characters(_, _, _)
body_characters(lines, k, seen) ==
    IF k > Len(lines) THEN 0
    ELSE IF lines[k][1] = "\r" THEN body_characters(lines, k + 1, TRUE)
    ELSE (IF seen THEN Len(lines[k]) ELSE 0)
            + body_characters(lines, k + 1, seen)

BodyOverflows(data) ==
    body_characters(strtok(data), 2, FALSE) > MAX_REQUEST_BODY_LENGTH - 1

ParsedAs(m, p, v, h) ==
    /\ constructed_request.method = m
    /\ constructed_request.path = p
    /\ constructed_request.version = v
    /\ constructed_request.host = h
    /\ constructed_request.body = << >>
    /\ constructed_request.success

\* C15 as stated: for every verb M, path of at most 99 characters, version
\* of at most 9 characters and host h without white space, the buffer
\* "<M> <path> <version>\r\nHost: <h>\r\n\r\n" is parsed to exactly that
\* method, path, version and host, an empty body and success = true.
C15_WellFormedRequestParsed ==
    \A m \in request_method, p \in WellFormedPaths,
       v \in WellFormedVersions, h \in WellFormedHosts :
        (Constructed /\ request_data = WellFormed(m, p, v, h))
            => ParsedAs(m, p, v, h)

\* C15 amended: the same for every host h of 1 to 99 characters without
\* white space; of a longer host the struct holds the first 99 characters.
C15_WellFormedRequestParsedHost99 ==
    \A m \in request_method, p \in WellFormedPaths,
       v \in WellFormedVersions, h \in WellFormedHosts :
        (Constructed /\ request_data = WellFormed(m, p, v, h))
            => ParsedAs(m, p, v, strncpy(h, 99))

\* CONNECT with a path of 99 characters, a version of 9 and a host of 99
\* was parsed and the connection closed.
C15_Witness ==
    /\ handle_pc = "closed"
    /\ request_data = WellFormed("CONNECT", << "/" >> \o Repeat("a", 98),
                                 HTTP_1_1 \o << "0" >>, Repeat("h", 99))
    /\ ParsedAs("CONNECT", << "/" >> \o Repeat("a", 98),
                HTTP_1_1 \o << "0" >>, Repeat("h", 99))

\* C16: a request whose method token, whatever its length, is not exactly
\* one of the nine verbs fails to parse and is never routed as one of the
\* nine methods.
C16_ArbitraryVerbsNeverAccepted ==
    ( /\ request_data # << >>
      /\ MethodToken(request_data) \notin verbs )
    => /\ route_pc = "idle"
       /\ invoked = << >>

\* C17: no request a client sends ends the process.
C17_NoRequestIsFatal == ~process_exited

\* What a client can take for a complete response: the fixed 404 and 500
\* of route(), a JSON or HTML response, an image header with its content.
CompleteResponse(written) ==
    /\ written # << >>
    /\ written[Len(written)] \in
          {"response_404", "response_500", "415 json", "400 json",
           "201 json", "200 html page", "image content"}

\* C18: when the connection of a request that failed to parse, matched no
\* route or whose handler failed is closed, a complete response has been
\* written to it.
C18_EveryRequestIsAnswered ==
    ( /\ handle_pc = "closed"
      /\ request_data # << >>
      /\ \/ ~constructed_request.success
         \/ route_pc = "returned" /\ invoked = << >>
         \/ route_pc = "returned" /\ status_message.text # "served" )
    => CompleteResponse(socket)

(***************************************************************************)
(*                    Properties of create_comment                         *)
(***************************************************************************)
\* Thread t is inside save_comment with data/comments.txt open
\* (route_actions_helper.c:299-302).
AppendsComment(t) ==
    /\ pc[t] = "file_open"
    /\ call[t].fn = "save_comment"

\* C19: create_comment appends the record of a comment to
\* data/comments.txt while it holds the resource lock of that file: its
\* resource_mutex_lock returned 0, a node of the file is locked by it, and
\* no other thread appends at the same time.
C19_CommentAppendedUnderLock ==
    \A t \in Threads :
        AppendsComment(t) =>
            /\ lock_ret[t] = 0
            /\ \E i \in NodesOf(call[t].filename) :
                  /\ resource_mutex_list[i].locked
                  /\ resource_mutex_list[i].owner = {t}
            /\ \A u \in Threads \ {t} : ~AppendsComment(u)

\* route() called create_comment for a request whose Content-Type is not
\* application/json: another value, or no such header at all.
UnsupportedMediaType ==
    /\ route_pc \notin {"idle", "route"}
    /\ invoked # << >>
    /\ routes[invoked[1]].action = "create_comment"
    /\ parsed_request.content_type # application_json

\* C20: a POST /comments whose Content-Type is not exactly
\* application/json is answered with 415; data/comments.txt is neither
\* opened nor modified and its resource lock is not acquired.
C20_UnsupportedMediaTypeLeavesStorage ==
    UnsupportedMediaType =>
        /\ comments_txt = << >>
        /\ resource_mutex_list = << >>
        /\ handle_pc = "closed" => socket = << "415 json" >>

(***************************************************************************)
(*              Progress of the threads that use the registry              *)
(***************************************************************************)
\* The node thread u waits for while it holds the list mutex (mutex.c:56).
AwaitedNode(u) == lock_walk(resource_mutex_list, call[u].filename, 1)

\* Thread t holds the lock of the path of its call and has reached the
\* call of resource_mutex_unlock, whose first statement takes the list
\* mutex (mutex.c:98).
Releasing(t) ==
    /\ pc[t] = "resource_mutex_unlock"
    /\ lock_ret[t] = 0
    /\ \E i \in NodesOf(call[t].filename) :
          t \in resource_mutex_list[i].owner

\* C23: a thread that holds the lock of p and calls resource_mutex_unlock(p)
\* can always complete the call: no thread that waits for a node this
\* thread holds keeps the list mutex from it.
C23_ReleaseNeverBlocked ==
    \A t \in Threads :
        Releasing(t) =>
            ~\E u \in Threads \ {t} :
                /\ WaitsForNode(u)
                /\ t \in resource_mutex_list[AwaitedNode(u)].owner

\* C24: the resource_mutex_unlock(p) of a thread whose resource_mutex_lock(p)
\* returned 0 unlocks the node mutex this thread locked and no mutex that
\* another thread holds.
C24_ReleaseMatchesAcquire ==
    [][\A t \in Threads :
          ( /\ pc[t] = "unlock_walk"
            /\ pc'[t] = "returned"
            /\ lock_ret[t] = 0 )
          => \A i \in DOMAIN resource_mutex_list :
                (resource_mutex_list[i].locked
                    /\ ~resource_mutex_list'[i].locked)
                => resource_mutex_list[i].owner = {t}]_vars

\* C25: every connection thread ends: none waits for a node mutex that was
\* left locked by a thread that has ended, which nothing unlocks any more.
C25_NoWaitForAbandonedLock ==
    \A u \in Threads :
        WaitsForNode(u) =>
            resource_mutex_list[AwaitedNode(u)].owner # {}

(***************************************************************************)
(*                 The body of the request                                 *)
(***************************************************************************)
\* Position i ends a blank line of the buffer: an empty line, or one that
\* holds a carriage return only.
EndsBlankLine(data, i) ==
    /\ data[i] = "\n"
    /\ \/ i = 1
       \/ data[i - 1] = "\n"
       \/ /\ data[i - 1] = "\r"
          /\ (i = 2 \/ data[i - 2] = "\n")

\* The characters of the lines behind the first blank line of the buffer.
LinesAfterBlankLine(data) ==
    LET i == CHOOSE k \in 1..Len(data) :
                /\ EndsBlankLine(data, k)
                /\ \A j \in 1..(k - 1) : ~EndsBlankLine(data, j)
        IsNoLineEnd(c) == c # "\n"
    IN  SelectSeq(SubSeq(data, i + 1, Len(data)), IsNoLineEnd)

\* C26: when the header section is followed by a blank line, CRLF or bare
\* LF, the lines behind it make up the body of the request returned with
\* success = true; and the body is non-empty only after such a line.
C26_BlankLineStartsBody ==
    ( /\ Constructed
      /\ constructed_request.success )
    => /\ HasBlankLine(request_data) =>
             constructed_request.body = LinesAfterBlankLine(request_data)
       /\ constructed_request.body # << >> => HasBlankLine(request_data)

\* C30: a body of at most 4095 characters is stored whole with
\* success = true; the parse fails only for a body of more than 4095.
C30_BodyCapacityBoundary ==
    LET n == body_characters(strtok(request_data), 2, FALSE) IN
    Constructed =>
        /\ n <= MAX_REQUEST_BODY_LENGTH - 1 =>
              /\ constructed_request.success
              /\ Len(constructed_request.body) = n
        /\ ~constructed_request.success => n > MAX_REQUEST_BODY_LENGTH - 1

(***************************************************************************)
(*                 What the route actions do to socket and request         *)
(***************************************************************************)
\* C27: a route action that returns an error has written nothing to the
\* socket, so the 500 response of route() is all the client receives.
C27_FailingHandlerWritesNothing ==
    /\ route_pc = "action_failed" => socket = << >>
    /\ ( /\ route_pc = "returned"
         /\ socket # << >>
         /\ socket[Len(socket)] = "response_500" )
       => socket = << "response_500" >>

\* C28: the request does not change after its construction, and the path
\* in the status string route() returns is the path that was parsed.
C28_RequestImmutable ==
    route_pc # "idle" =>
        /\ http_request = parsed_request
        /\ status_message.text \in {"served", "404", "500"} =>
              status_message.path = parsed_request.path

\* The directories of a relative file name from character i on, with
\* every ".." leaving the directory reached so far; dirs are the
\* directories entered and name the characters of the segment at hand.
RECURSIVE resolve(_, _, _, _)
resolve(file, i, dirs, name) ==
    LET entered == IF name = << >> \/ name = << "." >> THEN dirs
                   ELSE IF name = << ".", "." >>
                     THEN IF dirs = << >> THEN << >>
                          ELSE SubSeq(dirs, 1, Len(dirs) - 1)
                   ELSE Append(dirs, name)
    IN  IF i > Len(file) THEN entered
        ELSE IF file[i] = "/" THEN resolve(file, i + 1, entered, << >>)
        ELSE resolve(file, i + 1, dirs, Append(name, file[i]))

\* The directory public/images.
public_images ==
    << << "p", "u", "b", "l", "i", "c" >>,
       << "i", "m", "a", "g", "e", "s" >> >>

\* C29: the file send_image reads and sends to the client lies inside the
\* directory public/images.
C29_StaticFilesUnderDirectory ==
    ( /\ invoked = << ImageRoute >>
      /\ \E i \in DOMAIN socket : socket[i] = "image content" )
    => IsPrefix(public_images, resolve(http_request.path, 1, << >>, << >>))

(***************************************************************************)
(*                         Properties of shutdown                          *)
(***************************************************************************)

\* launch has returned to main.
LaunchReturned == launch_pc \in {"return", "main returned"}

\* C21: once handle_shutdown has set shutdown_flag, launch starts no call
\* of accept, so the call in progress is the last one, and launch returns:
\* the process does not end with launch still inside its loop.
C21_ShutdownStopsAcceptLoop ==
    [][ shutdown_flag = 1 =>
          /\ launch_pc' = "accept" => launch_pc = "accept"
          /\ process_exited' => LaunchReturned' ]_vars

\* Thread c was started before shutdown_flag was set: launch starts at
\* most one thread after the flag is set, the one of the iteration it is
\* in, so every thread but the last one started is older than the flag.
StartedBeforeShutdown(c) ==
    /\ connection[c].pc # "none"
    /\ \E d \in Connections : d > c /\ connection[d].pc # "none"

\* C22: when launch and main have returned after a shutdown, every
\* thread that was started on an accepted connection before the flag was
\* set has run handle_connection to its end.
C22_InFlightConnectionsSurviveShutdown ==
    \A c \in Connections :
        ( /\ launch_pc = "main returned"
          /\ StartedBeforeShutdown(c)
          /\ connection[c].client_socket # -1 )
            => connection[c].pc = "pthread_exit"

====
